---- MODULE Spec2Model ----
(***************************************************************************)
(* Model of cleanup (src/main.go): a retention-policy file cleaner.        *)
(*                                                                         *)
(* Strings are sequences of one-character strings, so that strconv.Atoi,   *)
(* strings.Split and strings.TrimSpace are computed and not assumed.       *)
(* Times are whole days since an origin; 0 is the zero time.Time, which no *)
(* file carries.  time.AddDate(0, 0, -days) is t - days.                   *)
(***************************************************************************)
EXTENDS Integers, Sequences, FiniteSets, TLC

VARIABLES
  helpFlag,        \* --help given on the command line
  args,            \* flag.Args(): the positional arguments
  env,             \* the environment variables DAYS and FOLDERS
  yaml,            \* the YAML file a non-numeric first argument names
  fs,              \* the file system: path -> directory record
  now,             \* the wall clock (time.Now)
  touched,         \* another process wrote to a folder since the last iteration
  faults,          \* how many more stat or remove calls may fail
  pc,              \* where main is: start, loop, done, fatal, help
  cfg,             \* main's cfg after mergeConfigs
  idx,             \* 1-based position of the folder loop in cfg.Folders
  overallTotal,    \* main's overallTotal
  overallDeleted,  \* main's overallDeleted
  visits,          \* one record per finished iteration of the folder loop
  logWrites,       \* how many times writeLog was called
  logFile          \* the lines of cleanup.log

vars == <<helpFlag, args, env, yaml, fs, now, touched, faults, pc, cfg, idx,
          overallTotal, overallDeleted, visits, logWrites, logFile>>

----------------------------------------------------------------------------
(* Bounds *)

MaxTime == 3
MaxDays == 2
MaxNow == 1
MaxFaults == 1

Times == 1..MaxTime

----------------------------------------------------------------------------
(* Strings *)

Digits == <<"0", "1", "2", "3", "4", "5", "6", "7", "8", "9">>

DigitValue(c) == (CHOOSE k \in 1..10 : Digits[k] = c) - 1

IsDigit(c) == \E k \in 1..10 : Digits[k] = c

\* the decimal numeral of a natural below 100
NatStr(n) == IF n < 10 THEN <<Digits[n + 1]>>
             ELSE <<Digits[(n \div 10) + 1], Digits[(n % 10) + 1]>>

RECURSIVE DigitsValue(_, _)
DigitsValue(s, acc) ==
  IF s = <<>> THEN acc ELSE DigitsValue(Tail(s), 10 * acc + DigitValue(Head(s)))

\* strconv.Atoi: an optional sign, then one or more decimal digits
Atoi(s) ==
  LET signed == s # <<>> /\ Head(s) \in {"+", "-"}
      body == IF signed THEN Tail(s) ELSE s
      okay == body # <<>> /\ \A k \in 1..Len(body) : IsDigit(body[k])
      mag == IF okay THEN DigitsValue(body, 0) ELSE 0
  IN [ok |-> okay,
      val |-> IF signed /\ Head(s) = "-" THEN 0 - mag ELSE mag]

isNumber(s) == Atoi(s).ok

IsSpace(c) == c \in {" ", "\t"}

RECURSIVE TrimLeft(_)
TrimLeft(s) == IF s # <<>> /\ IsSpace(Head(s)) THEN TrimLeft(Tail(s)) ELSE s

RECURSIVE TrimRight(_)
TrimRight(s) ==
  IF s # <<>> /\ IsSpace(s[Len(s)]) THEN TrimRight(SubSeq(s, 1, Len(s) - 1)) ELSE s

TrimSpace(s) == TrimRight(TrimLeft(s))

\* strings.Split(s, ","): the pieces between commas, one more than the commas
RECURSIVE SplitFrom(_, _)
SplitFrom(s, piece) ==
  IF s = <<>> THEN <<piece>>
  ELSE IF Head(s) = "," THEN <<piece>> \o SplitFrom(Tail(s), <<>>)
  ELSE SplitFrom(Tail(s), Append(piece, Head(s)))

Split(s) == SplitFrom(s, <<>>)

----------------------------------------------------------------------------
(* Configuration *)

ZeroConfig == [Days |-> 0, Folders |-> <<>>]

readYAMLConfig(path) ==
  IF path \in DOMAIN yaml /\ yaml[path].ok
  THEN [ok |-> TRUE,
        cfg |-> [Days |-> yaml[path].days, Folders |-> yaml[path].folders]]
  ELSE [ok |-> FALSE, cfg |-> ZeroConfig]

parseEnvConfig ==
  LET days == Atoi(env.DAYS)
      pieces == Split(env.FOLDERS)
      folders == IF env.FOLDERS = <<>> THEN <<>>
                 ELSE [k \in 1..Len(pieces) |-> TrimSpace(pieces[k])]
  IN IF env.DAYS # <<>> /\ ~days.ok
     THEN [ok |-> FALSE, cfg |-> ZeroConfig]
     ELSE [ok |-> TRUE,
           cfg |-> [Days |-> IF env.DAYS # <<>> THEN days.val ELSE 0,
                    Folders |-> folders]]

mergeConfigs(argCfg, envCfg) ==
  [Days |-> IF argCfg.Days = 0 THEN envCfg.Days ELSE argCfg.Days,
   Folders |-> IF Len(argCfg.Folders) = 0 THEN envCfg.Folders ELSE argCfg.Folders]

\* main, lines 171-194: the configuration the command line gives
ArgConfig ==
  IF Len(args) = 0 THEN [ok |-> TRUE, cfg |-> ZeroConfig]
  ELSE IF isNumber(args[1])
  THEN [ok |-> TRUE,
        cfg |-> [Days |-> Atoi(args[1]).val,
                 Folders |-> IF Len(args) > 1 THEN Tail(args) ELSE <<>>]]
  ELSE readYAMLConfig(args[1])

\* faulty variant of ConfigInvalid: zero days pass
ConfigInvalidLax(c) == c.Days < 0 \/ Len(c.Folders) = 0

\* main, line 200: the configuration main refuses
ConfigInvalid(c) == c.Days <= 0 \/ Len(c.Folders) = 0

----------------------------------------------------------------------------
(* The file system *)

A == <<"a">>
B == <<"b">>
U == <<"u">>
M == <<"m">>
N == <<"n">>
CfgPath == <<"c", ".", "y">>

FileNames == {"f1", "f2"}

\* os.ReadDir returns the entries sorted by name
FileOrder == <<"f1", "f2">>

NoEntry == [type |-> "none", mod |-> 0, birth |-> 0]
SubDir == [type |-> "dir", mod |-> 0, birth |-> 0]
RegularEntries == [type : {"regular"}, mod : Times, birth : Times]
Entries == {NoEntry, SubDir} \cup RegularEntries

File(m, b) == [type |-> "regular", mod |-> m, birth |-> b]

EmptyDir == [f \in FileNames |-> NoEntry]

Missing == [kind |-> "missing", listable |-> FALSE, entries |-> EmptyDir]
NotDir == [kind |-> "file", listable |-> FALSE, entries |-> EmptyDir]
Dir(es) == [kind |-> "dir", listable |-> TRUE, entries |-> es]
Unlistable(es) == [kind |-> "dir", listable |-> FALSE, entries |-> es]

\* os.Stat(path)
Stat(path) == IF path \in DOMAIN fs THEN fs[path] ELSE Missing

RegularNames(es) == {f \in FileNames : es[f].type = "regular"}

----------------------------------------------------------------------------
(* processFolder *)

\* faulty variant of IsRegular: every directory entry counts as a file
IsEntry(e) == e.type # "none"

\* line 88: entry.Type().IsRegular()
IsRegular(e) == e.type = "regular"

\* faulty variant of FileNewest: the creation time is ignored
FileNewestModOnly(e) == e.mod

\* lines 98-102: the later of a file's modification and creation times
FileNewest(e) == IF e.birth > e.mod THEN e.birth ELSE e.mod

\* lines 87-107: the files found and the newest time among those whose stat
\* succeeds; statFail are the files times.Stat fails on
RECURSIVE Scan(_, _, _, _)
Scan(names, es, statFail, acc) ==
  IF names = <<>> THEN acc
  ELSE LET f == Head(names)
           rest == Tail(names)
       IN IF ~IsRegular(es[f]) THEN Scan(rest, es, statFail, acc)
          ELSE LET found == [acc EXCEPT !.total = @ + 1,
                                        !.files = Append(@, f)]
               IN IF f \in statFail THEN Scan(rest, es, statFail, found)
                  ELSE Scan(rest, es, statFail,
                            IF FileNewest(es[f]) > found.newest
                            THEN [found EXCEPT !.newest = FileNewest(es[f])]
                            ELSE found)

\* faulty variant of Cutoff: counts back from the wall clock
CutoffFromNow(newestTime, days) == now - days

\* faulty variant of Cutoff: counts forward from the newest file
CutoffForward(newestTime, days) == newestTime + days

\* line 116: newestTime.AddDate(0, 0, -days), as time.AddDate documents it
\* (the day counts of the model are far from the range where it overflows)
Cutoff(newestTime, days) == newestTime - days

\* faulty variant of Stale: one old timestamp is enough
StaleEither(e, cutoff) == e.mod < cutoff \/ e.birth < cutoff

\* line 130
Stale(e, cutoff) == e.mod < cutoff /\ e.birth < cutoff

\* lines 120-139: statFail are the files times.Stat fails on in this pass,
\* rmFail those os.Remove fails on
RECURSIVE Sweep(_, _, _, _, _, _)
Sweep(files, es, cutoff, statFail, rmFail, acc) ==
  IF files = <<>> THEN acc
  ELSE LET f == Head(files)
           rest == Tail(files)
       IN IF f \in statFail
          THEN Sweep(rest, es, cutoff, statFail, rmFail,
                     [acc EXCEPT !.statErrs = @ \cup {f}])
          ELSE IF ~Stale(es[f], cutoff)
          THEN Sweep(rest, es, cutoff, statFail, rmFail, acc)
          ELSE IF f \in rmFail
          THEN Sweep(rest, es, cutoff, statFail, rmFail,
                     [acc EXCEPT !.rmErrs = @ \cup {f}])
          ELSE Sweep(rest, es, cutoff, statFail, rmFail,
                     [acc EXCEPT !.removed = @ \cup {f}, !.deleted = @ + 1])

\* the result of a call that touches nothing and counts nothing
NotCalled(es) ==
  [err |-> FALSE, total |-> 0, deleted |-> 0, newest |-> 0, cutoff |-> 0,
   removed |-> {}, statErrs |-> {}, rmErrs |-> {}, after |-> es]

\* processFolder on a directory that holds es; the result carries the return
\* values (total, deleted, err), what was logged and what the folder holds after
processFolder(dir, days, statFail1, statFail2, rmFail) ==
  LET es == dir.entries
      none == NotCalled(es)
  IN IF ~dir.listable THEN [none EXCEPT !.err = TRUE]
     ELSE LET scan == Scan(FileOrder, es, statFail1,
                           [total |-> 0, files |-> <<>>, newest |-> 0])
              seen == [none EXCEPT !.total = scan.total,
                                   !.statErrs = statFail1 \cap RegularNames(es)]
          IN IF scan.newest = 0 THEN seen
             ELSE LET cutoff == Cutoff(scan.newest, days)
                      swept == Sweep(scan.files, es, cutoff, statFail2, rmFail,
                                     [removed |-> {}, deleted |-> 0,
                                      statErrs |-> seen.statErrs, rmErrs |-> {}])
                  IN [seen EXCEPT !.deleted = swept.deleted,
                                  !.newest = scan.newest,
                                  !.cutoff = cutoff,
                                  !.removed = swept.removed,
                                  !.statErrs = swept.statErrs,
                                  !.rmErrs = swept.rmErrs,
                                  !.after = [f \in FileNames |->
                                               IF f \in swept.removed
                                               THEN NoEntry ELSE es[f]]]

----------------------------------------------------------------------------
(* main *)

\* lines 162-202: --help, the configuration, the fatal exits
Main_Start ==
  /\ pc = "start"
  /\ LET merged == mergeConfigs(ArgConfig.cfg, parseEnvConfig.cfg)
     IN IF helpFlag THEN pc' = "help" /\ cfg' = cfg
        ELSE IF ~ArgConfig.ok THEN pc' = "fatal" /\ cfg' = cfg
        ELSE IF ConfigInvalid(merged) THEN pc' = "fatal" /\ cfg' = merged
        ELSE pc' = "loop" /\ cfg' = merged
  /\ UNCHANGED <<helpFlag, args, env, yaml, fs, now, touched, faults, idx,
                 overallTotal, overallDeleted, visits, logWrites, logFile>>

\* line 214: the folders the loop skips
Skipped(info) == info.kind # "dir"

\* the stat and remove failures the environment may inject into one
\* processFolder call: at most faults of them
FaultChoices(regular) ==
  {c \in [statFail1 : SUBSET regular, statFail2 : SUBSET regular,
          rmFail : SUBSET regular] :
     Cardinality(c.statFail1) + Cardinality(c.statFail2)
       + Cardinality(c.rmFail) <= faults}

\* lines 207-222: what one iteration of the folder loop does with its folder
Visit(raw, c) ==
  LET folder == TrimSpace(raw)
      info == Stat(folder)
      called == folder # <<>> /\ ~Skipped(info)
      r == processFolder(info, cfg.Days, c.statFail1, c.statFail2, c.rmFail)
      outcome == IF folder = <<>> THEN "blank"
                 ELSE IF Skipped(info) THEN "skipped"
                 ELSE IF r.err THEN "failed"
                 ELSE "ok"
  IN [folder |-> folder, outcome |-> outcome, days |-> cfg.Days,
      before |-> info.entries]
       @@ (IF called THEN r ELSE NotCalled(info.entries))

\* lines 207-225: one iteration of the folder loop
Main_Loop ==
  /\ pc = "loop"
  /\ idx <= Len(cfg.Folders)
  /\ LET info == Stat(TrimSpace(cfg.Folders[idx]))
         regular == IF info.kind = "dir" /\ info.listable
                    THEN RegularNames(info.entries) ELSE {}
     IN \E c \in FaultChoices(regular) :
          /\ visits' = Append(visits, Visit(cfg.Folders[idx], c))
          /\ faults' = faults - (Cardinality(c.statFail1)
                                 + Cardinality(c.statFail2)
                                 + Cardinality(c.rmFail))
  /\ LET v == visits'[Len(visits')]
         done == v.outcome = "ok"
     IN /\ fs' = IF done THEN [fs EXCEPT ![v.folder].entries = v.after] ELSE fs
        /\ overallTotal' = IF done THEN overallTotal + v.total ELSE overallTotal
        /\ overallDeleted' = IF done THEN overallDeleted + v.deleted
                             ELSE overallDeleted
  /\ idx' = idx + 1
  /\ touched' = FALSE
  /\ UNCHANGED <<helpFlag, args, env, yaml, now, pc, cfg,
                 logWrites, logFile>>

\* faulty variant of SummaryLine: the two counts change places
SummaryLineSwapped(timestamp, totalFiles, deletedFiles) ==
  [time |-> timestamp, total |-> deletedFiles, deleted |-> totalFiles]

\* writeLog's line: the timestamp and the two totals
SummaryLine(timestamp, totalFiles, deletedFiles) ==
  [time |-> timestamp, total |-> totalFiles, deleted |-> deletedFiles]

\* lines 227-232: writeLog, which may fail to open or write cleanup.log
Main_Finish ==
  /\ pc = "loop"
  /\ idx > Len(cfg.Folders)
  /\ \E written \in BOOLEAN :
       logFile' = IF written
                  THEN Append(logFile, SummaryLine(now, overallTotal, overallDeleted))
                  ELSE logFile
  /\ logWrites' = logWrites + 1
  /\ pc' = "done"
  /\ UNCHANGED <<helpFlag, args, env, yaml, fs, now, touched, faults, cfg, idx,
                 overallTotal, overallDeleted, visits>>

----------------------------------------------------------------------------
(* The environment *)

\* another process creates, rewrites or removes a file in a folder between
\* two iterations of the loop (a write before the first iteration is another
\* initial state, one after the last is not seen by the run)
EnvWrite ==
  /\ pc = "loop"
  /\ 1 < idx /\ idx <= Len(cfg.Folders)
  /\ ~touched
  /\ \E d \in DOMAIN fs, f \in FileNames, e \in RegularEntries \cup {NoEntry} :
       /\ fs[d].kind = "dir"
       /\ fs[d].entries[f] # e
       /\ fs' = [fs EXCEPT ![d].entries[f] = e]
  /\ touched' = TRUE
  /\ UNCHANGED <<helpFlag, args, env, yaml, now, faults, pc, cfg, idx,
                 overallTotal, overallDeleted, visits, logWrites, logFile>>

\* the wall clock advances between two iterations of the loop
Tick ==
  /\ pc = "loop"
  /\ 1 < idx /\ idx <= Len(cfg.Folders)
  /\ now < MaxTime + 1 + MaxNow
  /\ now' = now + 1
  /\ UNCHANGED <<helpFlag, args, env, yaml, fs, touched, faults, pc, cfg, idx,
                 overallTotal, overallDeleted, visits, logWrites, logFile>>

----------------------------------------------------------------------------
(* Initial states *)

Started ==
  /\ pc = "start"
  /\ cfg = ZeroConfig
  /\ idx = 1
  /\ overallTotal = 0
  /\ overallDeleted = 0
  /\ visits = <<>>
  /\ logWrites = 0
  /\ logFile = <<>>

StaleAndFresh == [f \in FileNames |-> IF f = "f1" THEN File(1, 1) ELSE File(3, 3)]
OldAndBoundary == [f \in FileNames |-> IF f = "f1" THEN File(1, 3) ELSE File(2, 2)]

PresetFS ==
  (A :> Dir(StaleAndFresh)) @@ (B :> Dir(OldAndBoundary))
    @@ (U :> Unlistable(StaleAndFresh)) @@ (N :> NotDir)

NoEnv == [DAYS |-> <<>>, FOLDERS |-> <<>>]
NoYaml == <<>>

DayNumerals == {NatStr(d) : d \in 0..MaxDays}

\* the first positional argument: a number of days, or the path of a YAML file
FirstArgs == DayNumerals \cup {<<"+", "1">>, <<"-", "1">>, CfgPath}
RestArgs == {<<>>, <<A>>, <<B, A>>}
ArgChoices == {<<>>} \cup {<<first>> \o rest : first \in FirstArgs, rest \in RestArgs}

EnvChoices ==
  [DAYS : {<<>>, <<"x">>, <<"-", "1">>} \cup DayNumerals,
   FOLDERS : {<<>>, B, <<"b", ",", " ", "a">>}]

YamlChoices ==
  {CfgPath :> [ok |-> FALSE, days |-> 0, folders |-> <<>>]}
    \cup {CfgPath :> [ok |-> TRUE, days |-> d, folders |-> fl] :
            d \in 0..MaxDays, fl \in {<<>>, <<B>>}}

\* every way of configuring a run, over a fixed file system
Init ==
  /\ helpFlag \in BOOLEAN
  /\ args \in ArgChoices
  /\ env \in EnvChoices
  /\ yaml \in YamlChoices
  /\ fs = PresetFS
  /\ now = MaxTime + 1
  /\ touched = FALSE
  /\ faults = 0
  /\ Started

FolderArgs == {A, B, U, M, N, <<" ", "a">>, <<" ">>}
\* the folder lists of the runs: folder a alone, or beside one other entry
FolderLists ==
  {<<A>>, <<<<" ", "a">>>>}
    \cup {<<A, y>> : y \in FolderArgs} \cup {<<x, A>> : x \in FolderArgs}

Names(fl) == {TrimSpace(fl[k]) : k \in 1..Len(fl)}

\* runs of "cleanup days folder..." over every content of folder a; folder u
\* cannot be listed, and is empty or not in the runs that name it
InitRun ==
  /\ helpFlag = FALSE
  /\ env = NoEnv
  /\ yaml = NoYaml
  /\ \E d \in 0..MaxDays, fl \in FolderLists, es \in [FileNames -> Entries] :
       /\ args = <<NatStr(d)>> \o fl
       /\ \E us \in IF U \in Names(fl) THEN {EmptyDir, StaleAndFresh}
                    ELSE {StaleAndFresh} :
            fs = (A :> Dir(es)) @@ (B :> Dir(OldAndBoundary))
                   @@ (U :> Unlistable(us)) @@ (N :> NotDir)
  /\ now = MaxTime + 1
  /\ touched = FALSE
  /\ faults = MaxFaults
  /\ Started

\* runs that clean folder a twice while other processes write to it and the
\* clock advances
InitEnv ==
  /\ helpFlag = FALSE
  /\ \E d \in 1..MaxDays : args = <<NatStr(d), A, A>>
  /\ env = NoEnv
  /\ yaml = NoYaml
  /\ \E es \in [FileNames -> Entries] : fs = (A :> Dir(es))
  /\ now = MaxTime + 1
  /\ touched = FALSE
  /\ faults = 0
  /\ Started

Next == Main_Start \/ Main_Loop \/ Main_Finish

NextEnv == Next \/ EnvWrite \/ Tick

Spec == Init /\ [][Next]_vars

SpecRun == InitRun /\ [][Next]_vars

SpecEnv == InitEnv /\ [][NextEnv]_vars

----------------------------------------------------------------------------
(* Vocabulary of the properties *)

Visits == {visits[k] : k \in 1..Len(visits)}

\* processFolder was called for this folder
Called(v) == v.outcome \in {"ok", "failed"}

\* processFolder listed the folder and returned its counts
Processed(v) == v.outcome = "ok"

\* no stat and no delete error was logged
Clean(v) == v.statErrs = {} /\ v.rmErrs = {}

MaxOf(S) == CHOOSE m \in S : \A x \in S : x <= m

\* the newest of all modification and creation times of the regular files
NewestIn(es) ==
  IF RegularNames(es) = {} THEN 0
  ELSE MaxOf({es[f].mod : f \in RegularNames(es)}
               \cup {es[f].birth : f \in RegularNames(es)})

\* the regular files with both timestamps strictly before newest - days
StaleIn(es, days) ==
  {f \in RegularNames(es) :
     es[f].mod < NewestIn(es) - days /\ es[f].birth < NewestIn(es) - days}

Without(es, gone) == [f \in FileNames |-> IF f \in gone THEN NoEntry ELSE es[f]]

RECURSIVE SumOf(_, _)
SumOf(field, k) ==
  IF k = 0 THEN 0
  ELSE SumOf(field, k - 1)
         + (IF Processed(visits[k]) THEN visits[k][field] ELSE 0)

----------------------------------------------------------------------------
(* Properties *)

\* C1: a regular file whose modification time or creation time is at or
\* after cutoff = newest - days is not deleted by processFolder, whether
\* newest is taken over all files or over those the first pass could stat
C1_FreshFilesSurvive ==
  \A v \in Visits :
    Called(v) =>
      \A f \in RegularNames(v.before) :
        LET e == v.before[f]
            recent(cutoff) == e.mod >= cutoff \/ e.birth >= cutoff
        IN (recent(NewestIn(v.before) - v.days) \/ recent(v.newest - v.days))
             => f \notin v.removed /\ v.after[f] = e

\* a call that deleted nothing from a folder holding a file with both
\* timestamps equal to cutoff and a file with an old modification time and a
\* creation time after cutoff
C1_Witness ==
  \E v \in Visits :
    /\ Processed(v) /\ Clean(v) /\ v.removed = {}
    /\ \E f, g \in RegularNames(v.after) :
         /\ v.before[f].mod = v.cutoff /\ v.before[f].birth = v.cutoff
         /\ v.before[g].mod < v.cutoff /\ v.before[g].birth >= v.cutoff

\* C2 as stated: whenever no stat or delete error occurs, processFolder
\* deletes exactly the regular files with both timestamps strictly before
\* newest - days and returns their number
C2_Original ==
  \A v \in Visits :
    (Called(v) /\ Clean(v)) =>
      /\ v.removed = StaleIn(v.before, v.days)
      /\ v.after = Without(v.before, StaleIn(v.before, v.days))
      /\ v.deleted = Cardinality(StaleIn(v.before, v.days))

\* C2, amended: when processFolder can list the folder and no stat or delete
\* error occurs, it deletes exactly the regular files with both timestamps
\* strictly before newest - days, newest being the maximum over the folder's
\* own regular files, and returns their number as filesDeleted; when it
\* cannot list the folder it deletes nothing and returns zero counts
C2_DeletesExactlyStale ==
  \A v \in Visits :
    /\ (Processed(v) /\ Clean(v)) =>
         /\ v.removed = StaleIn(v.before, v.days)
         /\ v.after = Without(v.before, StaleIn(v.before, v.days))
         /\ v.deleted = Cardinality(StaleIn(v.before, v.days))
         /\ v.total = Cardinality(RegularNames(v.before))
    /\ v.outcome = "failed" =>
         /\ v.removed = {} /\ v.after = v.before
         /\ v.deleted = 0 /\ v.total = 0

\* a clean call that deleted one file and kept another, in a folder whose
\* newest file is older than the wall clock
C2_Witness ==
  \E v \in Visits :
    /\ Processed(v) /\ Clean(v)
    /\ v.deleted = 1 /\ v.removed # {}
    /\ RegularNames(v.after) # {}
    /\ NewestIn(v.before) < now

\* C3 as stated: for a folder without regular files processFolder returns
\* (0, 0, no error) and leaves the folder as it was
C3_Original ==
  \A v \in Visits :
    (Called(v) /\ RegularNames(v.before) = {}) =>
      /\ v.outcome = "ok"
      /\ v.total = 0 /\ v.deleted = 0
      /\ v.after = v.before

\* C3, amended: for a folder that can be listed and holds no regular files
\* processFolder returns (0, 0, no error); a folder that cannot be listed
\* yields (0, 0, error); either way the folder is left as it was
C3_NoFilesNoChange ==
  \A v \in Visits :
    (Called(v) /\ RegularNames(v.before) = {}) =>
      /\ v.outcome = "ok" <=> Stat(v.folder).listable
      /\ v.total = 0 /\ v.deleted = 0
      /\ v.after = v.before
      /\ Stat(v.folder).entries = v.before

\* a folder holding only a subdirectory was processed
C3_Witness ==
  \E v \in Visits :
    /\ Processed(v)
    /\ RegularNames(v.before) = {}
    /\ \E f \in FileNames : v.before[f].type = "dir"
    /\ v.total = 0

\* C4 as stated: whenever the first command-line argument is numeric, the
\* retention days the folders are cleaned with is that number, whatever DAYS
C4_Original ==
  (pc = "loop" /\ Len(args) > 0 /\ isNumber(args[1]))
    => cfg.Days = Atoi(args[1]).val

\* C5 as stated: whenever folder paths follow the first argument, be it a
\* number of days or a YAML path, the folders cleaned are those arguments
C5_Original ==
  (pc = "loop" /\ Len(args) > 1) => cfg.Folders = Tail(args)

\* C6 as stated: a run with a non-numeric DAYS ends fatally and processes no
\* folder, whatever the command line and the YAML file supply
C6_Original ==
  (env.DAYS # <<>> /\ ~isNumber(env.DAYS) /\ ~helpFlag /\ pc # "start")
    => pc = "fatal" /\ visits = <<>>

\* C7: when the merged configuration has days <= 0 or no folders, the run
\* ends fatally before the folder loop: no folder is processed, no file is
\* deleted and nothing is appended to the log file
C7_InvalidConfigIsFatal ==
  (pc \notin {"start", "help"} /\ (cfg.Days <= 0 \/ Len(cfg.Folders) = 0))
    => /\ pc = "fatal"
       /\ idx = 1 /\ visits = <<>>
       /\ fs = PresetFS
       /\ logWrites = 0 /\ logFile = <<>>

\* a run given folders and a non-positive number of days ended fatally
C7_Witness ==
  /\ pc = "fatal"
  /\ cfg.Days <= 0
  /\ Len(cfg.Folders) > 0
  /\ visits = <<>>

\* the folder loop so far: one visit per folder, in input order, none left
\* out; a folder counts exactly when it is a directory that can be listed
InOrder ==
  /\ Len(visits) = idx - 1
  /\ Len(visits) <= Len(cfg.Folders)
  /\ \A k \in 1..Len(visits) :
       /\ visits[k].folder = TrimSpace(cfg.Folders[k])
       /\ Processed(visits[k]) <=>
            /\ visits[k].folder # <<>>
            /\ Stat(visits[k].folder).kind = "dir"
            /\ Stat(visits[k].folder).listable
  /\ overallTotal = SumOf("total", Len(visits))
  /\ overallDeleted = SumOf("deleted", Len(visits))

\* C8 as stated: folders are processed in input order, a failing folder is
\* skipped without stopping the run, and the run always ends by appending
\* exactly one summary line carrying the sums of the processed folders
C8_Original ==
  /\ pc \in {"loop", "done"} => InOrder
  /\ pc = "fatal" => visits = <<>>
  /\ pc = "done" =>
       /\ Len(visits) = Len(cfg.Folders)
       /\ Len(logFile) = 1
       /\ logFile[1].total = SumOf("total", Len(visits))
       /\ logFile[1].deleted = SumOf("deleted", Len(visits))

\* C8, amended: folders are processed in input order, a failing folder is
\* skipped without stopping the run, and the run always ends with one call
\* of writeLog for the sums of the processed folders; exactly one summary
\* line with those sums is appended unless writing the log file fails, and
\* then none is
C8_RunEndsWithSummary ==
  /\ pc \in {"loop", "done"} => InOrder
  /\ pc = "fatal" => visits = <<>>
  /\ pc = "loop" => logWrites = 0 /\ logFile = <<>>
  /\ pc = "done" =>
       /\ Len(visits) = Len(cfg.Folders)
       /\ logWrites = 1
       /\ Len(logFile) <= 1
       /\ \A k \in 1..Len(logFile) :
            /\ logFile[k].total = SumOf("total", Len(visits))
            /\ logFile[k].deleted = SumOf("deleted", Len(visits))
            /\ logFile[k].time = now

\* a finished run whose first folder failed and whose second was cleaned,
\* with the summary line written
C8_Witness ==
  /\ pc = "done"
  /\ Len(visits) = 2
  /\ visits[1].outcome \in {"skipped", "failed"}
  /\ Processed(visits[2]) /\ visits[2].deleted = 1 /\ visits[2].total = 2
  /\ Len(logFile) = 1

C10_NeverEmpties ==
  \A v \in Visits :
    /\ (Processed(v) /\ v.newest # 0) =>
         /\ \E f \in RegularNames(v.after) :
              /\ v.after[f] = v.before[f]
              /\ MaxOf({v.before[f].mod, v.before[f].birth}) = v.newest
         /\ v.deleted < v.total
         /\ v.days > 0
    /\ RegularNames(v.before) # {} => RegularNames(v.after) # {}

\* a call that saw two files, deleted one and kept the newest
C10_Witness ==
  \E v \in Visits :
    /\ Processed(v)
    /\ v.total = 2 /\ v.deleted = 1
    /\ Cardinality(RegularNames(v.after)) = 1

====
